---- MODULE Spec2Model ----
(***************************************************************************)
(* Model of the aurora forecast map generator (generate_aurora_map_old.py): *)
(* main() creates the output directories, fetches the NOAA feed, builds the *)
(* threshold figure, writes docs/index.html and then the JPEG snapshot.     *)
(* The published page is modelled too: its dropdown applies the "update"    *)
(* arguments that build_figure stored in each button.                       *)
(*                                                                         *)
(* Text is a sequence of strings whose concatenation is the Python string:  *)
(* literal pieces of an f-string are one element, values that the code      *)
(* inspects character by character (the timestamps) are one element per     *)
(* character.  U+2265 of the source is written ">=" inside strings.         *)
(* Python's 0-based trace/button index i is index i+1 here.                 *)
(***************************************************************************)
EXTENDS Integers, Sequences, FiniteSets, TLC

VARIABLES pc, df, obs_time, fc_time, fig, html_file, ts_str, jpg_file,
          page, calls, error, stdout

vars == <<pc, df, obs_time, fc_time, fig, html_file, ts_str, jpg_file,
          page, calls, error, stdout>>

(* ------------------------------ inputs --------------------------------- *)

\* Largest number of rows of the feed's "coordinates" array that is enumerated.
MaxSamples == 3

\* Aurora values a row may carry: below, between, on and above the thresholds.
Intensities == {0, 2, 5, 12}

\* The feed is a grid: row k carries its own longitude, on one latitude.
GridLon(k) == 10 * (k - 1)

GridLat(k) == 65

Row(k, a) == [lon |-> GridLon(k), lat |-> GridLat(k), aurora |-> a]

Snapshots ==
  UNION { { [k \in 1..n |-> Row(k, f[k])] : f \in [1..n -> Intensities] }
          : n \in 0..MaxSamples }

\* Strings tried as "Observation Time" / "Forecast Time", one element per character.
TsEmpty == <<>>

TsObsZ == <<"2","0","2","5","-","1","1","-","1","2","T","2","1",":","4","7",":","0","0","Z">>

TsFcPlain == <<"2","0","2","5","-","1","1","-","1","2","T","2","2",":","3","6",":","0","0">>

TsOffset == <<"2","0","2","5","-","1","1","-","1","2"," ","2","1",":","4","7",":","0","0","+","0","2",":","0","0">>

TsDateOnly == <<"2","0","2","4","-","0","2","-","2","9">>

TsNotADate == <<"n","o","t","-","a","-","d","a","t","e">>

TsBadMonth == <<"2","0","2","5","-","1","3","-","1","2","T","2","1",":","4","7",":","0","0","Z">>

TsBadDay == <<"2","0","2","5","-","0","2","-","2","9","T","2","3",":","5","9",":","5","9","Z">>

TsBadHour == <<"2","0","2","5","-","1","1","-","1","2","T","2","4",":","0","0",":","0","0","Z">>

TsDoubleZ == <<"2","0","2","5","-","1","1","-","1","2","T","2","1",":","4","7",":","0","0","Z","Z">>

TimeStrings ==
  {TsEmpty, TsObsZ, TsFcPlain, TsOffset, TsDateOnly, TsNotADate, TsBadMonth,
   TsBadDay, TsBadHour, TsDoubleZ}

\* A member of the JSON object: absent, or present with a string value.
Absent == [present |-> FALSE, val |-> <<>>]

Present(s) == [present |-> TRUE, val |-> s]

\* The members the feed of a run may carry.
TimeMembers == {Absent, Present(TsEmpty), Present(TsObsZ), Present(TsNotADate)}

(* --------------------------- text helpers ------------------------------ *)

DigitChar == <<"0","1","2","3","4","5","6","7","8","9">>

IsDigit(c) == \E d \in 1..10 : DigitChar[d] = c

DigitVal(c) == (CHOOSE d \in 1..10 : DigitChar[d] = c) - 1

\* str(n) of a non-negative int, as an f-string renders {thr}.
RECURSIVE IntToStr(_)
IntToStr(n) ==
  IF n < 10 THEN <<DigitChar[n + 1]>>
  ELSE IntToStr(n \div 10) \o <<DigitChar[(n % 10) + 1]>>

\* Zero-padded decimal of width w, as strftime renders %Y %m %d %H %M %S.
RECURSIVE Pad(_, _)
Pad(n, w) ==
  IF w = 0 THEN <<>> ELSE Pad(n \div 10, w - 1) \o <<DigitChar[(n % 10) + 1]>>

\* str.replace("Z", "+00:00"): every occurrence is replaced.
RECURSIVE ReplaceZ(_)
ReplaceZ(s) ==
  IF s = <<>> THEN <<>>
  ELSE (IF Head(s) = "Z" THEN <<"+","0","0",":","0","0">> ELSE <<Head(s)>>)
       \o ReplaceZ(Tail(s))

AllDigits(s, i, n) == \A k \in i..(i + n - 1) : IsDigit(s[k])

RECURSIVE Num(_, _, _)
Num(s, i, n) ==
  IF n = 0 THEN 0 ELSE 10 * Num(s, i, n - 1) + DigitVal(s[i + n - 1])

IsLeap(y) == (y % 4 = 0 /\ y % 100 # 0) \/ y % 400 = 0

DaysInMonth(y, m) ==
  IF m = 2 THEN (IF IsLeap(y) THEN 29 ELSE 28)
  ELSE IF m \in {4, 6, 9, 11} THEN 30 ELSE 31

NoDateTime == [ok |-> FALSE, year |-> 0, month |-> 0, day |-> 0,
               hour |-> 0, minute |-> 0, second |-> 0]

DateOk(s) ==
  /\ AllDigits(s, 1, 4) /\ s[5] = "-" /\ AllDigits(s, 6, 2) /\ s[8] = "-"
  /\ AllDigits(s, 9, 2)
  /\ Num(s, 1, 4) >= 1
  /\ Num(s, 6, 2) \in 1..12
  /\ Num(s, 9, 2) \in 1..DaysInMonth(Num(s, 1, 4), Num(s, 6, 2))

TimeOk(s, i) ==
  /\ AllDigits(s, i, 2) /\ s[i + 2] = ":" /\ AllDigits(s, i + 3, 2)
  /\ s[i + 5] = ":" /\ AllDigits(s, i + 6, 2)
  /\ Num(s, i, 2) \in 0..23
  /\ Num(s, i + 3, 2) \in 0..59
  /\ Num(s, i + 6, 2) \in 0..59

OffsetOk(s, i) ==
  /\ s[i] \in {"+", "-"}
  /\ AllDigits(s, i + 1, 2) /\ s[i + 3] = ":" /\ AllDigits(s, i + 4, 2)
  /\ Num(s, i + 1, 2) \in 0..23
  /\ Num(s, i + 4, 2) \in 0..59

\* datetime.fromisoformat on the shapes YYYY-MM-DD[?HH:MM:SS[+HH:MM]]; ok = FALSE
\* is the ValueError it raises.  The fields are the wall-clock fields as written:
\* an offset makes the value aware but does not shift them.
fromisoformat(s) ==
  LET n == Len(s)
      shape == \/ n = 10 /\ DateOk(s)
               \/ n = 19 /\ DateOk(s) /\ TimeOk(s, 12)
               \/ n = 25 /\ DateOk(s) /\ TimeOk(s, 12) /\ OffsetOk(s, 20)
  IN IF ~shape THEN NoDateTime
     ELSE [ok |-> TRUE, year |-> Num(s, 1, 4), month |-> Num(s, 6, 2),
           day |-> Num(s, 9, 2),
           hour |-> IF n = 10 THEN 0 ELSE Num(s, 12, 2),
           minute |-> IF n = 10 THEN 0 ELSE Num(s, 15, 2),
           second |-> IF n = 10 THEN 0 ELSE Num(s, 18, 2)]

\* dt.strftime("%Y%m%d_%H%M%S")
strftime(dt) ==
  Pad(dt.year, 4) \o Pad(dt.month, 2) \o Pad(dt.day, 2) \o <<"_">>
  \o Pad(dt.hour, 2) \o Pad(dt.minute, 2) \o Pad(dt.second, 2)

\* Result of a call: raised = an exception left the function; none = it returned None.
None == [raised |-> FALSE, none |-> TRUE, str |-> <<>>]

Returned(s) == [raised |-> FALSE, none |-> FALSE, str |-> s]

Raised == [raised |-> TRUE, none |-> FALSE, str |-> <<>>]

\* format_iso_timestamp without its try/except: the ValueError leaves the function.
format_iso_timestamp_NoExcept(ts) ==
  IF ts = <<>> THEN None
  ELSE LET dt == fromisoformat(ReplaceZ(ts))
       IN IF dt.ok THEN Returned(strftime(dt)) ELSE Raised

format_iso_timestamp(ts) ==
  IF ts = <<>> THEN None
  ELSE LET dt == fromisoformat(ReplaceZ(ts))
       IN IF dt.ok THEN Returned(strftime(dt)) ELSE None

\* `x or "unknown"` on a result that did not raise.
OrUnknown(r) == IF r.none \/ r.str = <<>> THEN <<"unknown">> ELSE r.str

get_timestamp_from_times(obs, fc) ==
  LET o == format_iso_timestamp(obs)
      f == format_iso_timestamp(fc)
  IN IF o.raised \/ f.raised THEN Raised
     ELSE Returned(<<"obs_">> \o OrUnknown(o) \o <<"__fc_">> \o OrUnknown(f))

(* ------------------------------ build_figure --------------------------- *)

\* The threshold list written out of order.
thresholds_Unsorted == <<0, 5, 1, 10>>

thresholds == <<0, 1, 5, 10>>

MarkerSize == 2

CMin == 0

\* Series.max(): the largest value, NaN for a column without rows.
NaN == [nan |-> TRUE, val |-> 0]

max_aurora(d) ==
  IF Len(d) = 0 THEN NaN
  ELSE [nan |-> FALSE,
        val |-> CHOOSE m \in {d[k].aurora : k \in 1..Len(d)} :
                  \A k \in 1..Len(d) : d[k].aurora <= m]

\* The mask with a strict comparison.
Mask_Strict(r, thr) == r.aurora > thr

\* The boolean mask of df["aurora"] >= thr, row by row.
Mask(r, thr) == r.aurora >= thr

\* df[mask]: the rows the mask keeps, in order, each as often as it occurs.
subset(d, thr) == SelectSeq(d, LAMBDA r : Mask(r, thr))

Column(sub, c) ==
  [k \in 1..Len(sub) |-> CASE c = "lon" -> sub[k].lon
                           [] c = "lat" -> sub[k].lat
                           [] OTHER -> sub[k].aurora]

\* Every trace left at Plotly's default, visible.
FirstTrace_Always(i) == TRUE

\* visible=(i == 0) and the colorbar given `if i == 0`.
FirstTrace(i) == i = 1

Scattergeo(d, i) ==
  LET sub == subset(d, thresholds[i])
  IN [lon |-> Column(sub, "lon"),
      lat |-> Column(sub, "lat"),
      mode |-> "markers",
      size |-> MarkerSize,
      color |-> Column(sub, "aurora"),
      colorscale |-> "Viridis",
      cmin |-> CMin,
      cmax |-> max_aurora(d),
      colorbar |-> FirstTrace(i),
      showlegend |-> FALSE,
      visible |-> FirstTrace(i),
      name |-> <<"aurora >= ">> \o IntToStr(thresholds[i])]

traces(d) == [i \in 1..Len(thresholds) |-> Scattergeo(d, i)]

title(obs, fc) ==
  <<"Aurora Forecast", "<br><sub>Observation: ">> \o obs
  \o <<" | Forecast: ">> \o fc \o <<"</sub>">>

\* The vector that also keeps the layers above i switched on.
ButtonVisible_Cumulative(i) == [j \in 1..Len(thresholds) |-> j >= i]

\* visible = [False] * len(thresholds); visible[i] = True
ButtonVisible(i) == [j \in 1..Len(thresholds) |-> j = i]

ButtonTitle(obs, fc, i) ==
  title(obs, fc) \o <<"<br><sup>Threshold: aurora >= ">>
  \o IntToStr(thresholds[i]) \o <<"</sup>">>

Button(obs, fc, i) ==
  [label |-> <<"Aurora >= ">> \o IntToStr(thresholds[i]),
   method |-> "update",
   visible |-> ButtonVisible(i),
   title |-> ButtonTitle(obs, fc, i)]

\* The menu built without the "show all" option.
buttons_SkipFirst(obs, fc) == [i \in 1..(Len(thresholds) - 1) |-> Button(obs, fc, i + 1)]

buttons(obs, fc) == [i \in 1..Len(thresholds) |-> Button(obs, fc, i)]

NoFig == [data |-> <<>>, title |-> <<>>, buttons |-> <<>>, active |-> 0]

build_figure(d, obs, fc) ==
  [data |-> traces(d),
   title |-> title(obs, fc),
   buttons |-> buttons(obs, fc),
   active |-> 0]

(* --------------------------- the published page ------------------------ *)

NoPage == [visible |-> <<>>, title |-> <<>>, active |-> 0]

\* The page as the document is opened: each trace's own flag, the layout's title.
OpenPage(f) ==
  [visible |-> [i \in 1..Len(f.data) |-> f.data[i].visible],
   title |-> f.title,
   active |-> f.active]

\* A button that flips layer i instead of setting the whole vector.
ApplyButton_Toggle(f, pg, i) ==
  [visible |-> [j \in 1..Len(pg.visible) |->
                  IF j = i THEN ~pg.visible[j] ELSE pg.visible[j]],
   title |-> f.buttons[i].title,
   active |-> i - 1]

\* method="update" with args [{"visible": v}, {"title": t}]: entry j of v becomes
\* trace j's flag, t becomes the title, and the menu marks the option active.
ApplyButton(f, pg, i) ==
  [visible |-> [j \in 1..Len(pg.visible) |-> f.buttons[i].visible[j]],
   title |-> f.buttons[i].title,
   active |-> i - 1]

(* ------------------------------ fetch ---------------------------------- *)

\* What the GET can come to: the exception raised, or the parsed body.
FetchErrors == {"ConnectionError", "HTTPError", "JSONDecodeError", "KeyError"}

\* data.get(key, ""): the member's value, "" when it is absent.
Get(member) == IF member.present THEN member.val ELSE <<>>

(* ------------------------------ main ----------------------------------- *)

Init ==
  /\ pc = "start"
  /\ df = <<>>
  /\ obs_time = <<>>
  /\ fc_time = <<>>
  /\ fig = NoFig
  /\ html_file = NoFig
  /\ ts_str = <<>>
  /\ jpg_file = <<>>
  /\ page = NoPage
  /\ calls = <<>>
  /\ error = "none"
  /\ stdout = <<>>

\* An exception that nothing catches leaves main: the run ends with a traceback.
Propagate(exc) == /\ pc' = "failed" /\ error' = exc

\* main with the page written before the figure is built.
AfterStep_WriteBeforeBuild(step) ==
  CASE step = "makedirs" -> "fetch"
    [] step = "fetch" -> "write_html"
    [] step = "write_html" -> "build"
    [] step = "build" -> "write_image"
    [] OTHER -> "done"

\* Statement order of main: the call that follows each completed call.
AfterStep(step) ==
  CASE step = "makedirs" -> "fetch"
    [] step = "fetch" -> "build"
    [] step = "build" -> "write_html"
    [] step = "write_html" -> "write_image"
    [] OTHER -> "done"

HtmlPath == <<"docs", "/", "index.html">>

JpgPath(stem) == <<"docs", "/", "images", "/", "aurora_">> \o stem \o <<".jpg">>

MakeDirs ==
  /\ pc = "start"
  /\ calls' = Append(calls, "makedirs")
  /\ \E ok \in BOOLEAN :
       IF ok THEN pc' = AfterStep("makedirs") /\ error' = error
       ELSE Propagate("OSError")
  /\ UNCHANGED <<df, obs_time, fc_time, fig, html_file, ts_str, jpg_file,
                 page, stdout>>

\* requests.get, raise_for_status, resp.json() or data["coordinates"] raises.
FetchFails ==
  /\ pc = "fetch"
  /\ calls' = Append(calls, "fetch")
  /\ \E exc \in FetchErrors : Propagate(exc)
  /\ UNCHANGED <<df, obs_time, fc_time, fig, html_file, ts_str, jpg_file,
                 page, stdout>>

FetchReturns ==
  /\ pc = "fetch"
  /\ calls' = Append(calls, "fetch")
  /\ \E coords \in Snapshots, o \in TimeMembers, f \in TimeMembers :
       /\ df' = coords
       /\ obs_time' = Get(o)
       /\ fc_time' = Get(f)
  /\ pc' = AfterStep("fetch")
  /\ UNCHANGED <<fig, html_file, ts_str, jpg_file, page, error, stdout>>

Build ==
  /\ pc = "build"
  /\ calls' = Append(calls, "build")
  /\ fig' = build_figure(df, obs_time, fc_time)
  /\ pc' = AfterStep("build")
  /\ UNCHANGED <<df, obs_time, fc_time, html_file, ts_str, jpg_file, page,
                 error, stdout>>

WriteHtml ==
  /\ pc = "write_html"
  /\ calls' = Append(calls, "write_html")
  /\ \E ok \in BOOLEAN :
       IF ok
       THEN /\ html_file' = fig
            /\ page' = OpenPage(fig)
            /\ pc' = AfterStep("write_html")
            /\ error' = error
       ELSE /\ Propagate("OSError")
            /\ UNCHANGED <<html_file, page>>
  /\ UNCHANGED <<df, obs_time, fc_time, fig, ts_str, jpg_file, stdout>>

\* Lines 163-171: the file name, fig.write_image, and the two prints after it.
\* "RenderError" names whatever write_image raises when the export fails.
WriteImage ==
  /\ pc = "write_image"
  /\ LET r == get_timestamp_from_times(obs_time, fc_time)
     IN IF r.raised
        THEN /\ Propagate("ValueError")
             /\ UNCHANGED <<ts_str, jpg_file, calls, stdout>>
        ELSE /\ ts_str' = r.str
             /\ calls' = Append(calls, "write_image")
             /\ \E ok \in BOOLEAN :
                  IF ok
                  THEN /\ jpg_file' = JpgPath(r.str)
                       /\ stdout' = << <<"Saved interactive map to ">> \o HtmlPath,
                                       <<"Saved JPEG snapshot to ">> \o JpgPath(r.str) >>
                       /\ pc' = AfterStep("write_image")
                       /\ error' = error
                  ELSE /\ Propagate("RenderError")
                       /\ UNCHANGED <<jpg_file, stdout>>
  /\ UNCHANGED <<df, obs_time, fc_time, fig, html_file, page>>

\* A reader of the written page picks option i of the dropdown.
Select(i) ==
  /\ html_file # NoFig
  /\ page' = ApplyButton(html_file, page, i)
  /\ UNCHANGED <<pc, df, obs_time, fc_time, fig, html_file, ts_str, jpg_file,
                 calls, error, stdout>>

Next ==
  \/ MakeDirs
  \/ FetchFails
  \/ FetchReturns
  \/ Build
  \/ WriteHtml
  \/ WriteImage
  \/ \E i \in 1..Len(thresholds) : Select(i)

Spec == Init /\ [][Next]_vars

\* The process exit status: 0 when main returned, 1 when an exception left it.
ExitCode == IF pc = "failed" THEN 1 ELSE 0

(* ----------------- get_timestamp_from_times on its own ----------------- *)

InitStem ==
  /\ pc = "stem"
  /\ df = <<>>
  /\ obs_time \in TimeStrings
  /\ fc_time \in TimeStrings
  /\ fig = NoFig
  /\ html_file = NoFig
  /\ ts_str = <<>>
  /\ jpg_file = <<>>
  /\ page = NoPage
  /\ calls = <<>>
  /\ error = "none"
  /\ stdout = <<>>

CallStem ==
  /\ pc = "stem"
  /\ LET r == get_timestamp_from_times(obs_time, fc_time)
     IN IF r.raised
        THEN Propagate("ValueError") /\ ts_str' = ts_str
        ELSE ts_str' = r.str /\ pc' = "stem_done" /\ error' = error
  /\ UNCHANGED <<df, obs_time, fc_time, fig, html_file, jpg_file, page, calls,
                 stdout>>

NextStem == CallStem

SpecStem == InitStem /\ [][NextStem]_vars

(* ------------------------------ properties ----------------------------- *)

\* The thresholds and their decimal text, written out from the specification.
T == <<0, 1, 5, 10>>

TText == << <<"0">>, <<"1">>, <<"5">>, <<"1", "0">> >>

NLayers == 4

VisibleSet(v) == {j \in DOMAIN v : v[j]}

Unit(i) == [j \in 1..NLayers |-> j = i]

Built == fig # NoFig

Published == html_file # NoFig

BaseTitle ==
  <<"Aurora Forecast", "<br><sub>Observation: ">> \o obs_time
  \o <<" | Forecast: ">> \o fc_time \o <<"</sub>">>

SuffixedTitle(i) ==
  BaseTitle \o <<"<br><sup>Threshold: aurora >= ">> \o TText[i] \o <<"</sup>">>

\* The process part of Next: every step main itself takes.
MainStep == MakeDirs \/ FetchFails \/ FetchReturns \/ Build \/ WriteHtml \/ WriteImage

\* How often value x occurs in sequence q.
Occurrences(q, x) == Cardinality({k \in DOMAIN q : q[k] = x})

\* Layer i of the built figure as rows again.
LayerRows(i) ==
  [k \in 1..Len(fig.data[i].lon) |->
     [lon |-> fig.data[i].lon[k], lat |-> fig.data[i].lat[k],
      aurora |-> fig.data[i].color[k]]]

AuroraOf(d) == [k \in 1..Len(d) |-> d[k].aurora]

\* C1: exactly one layer is visible at any time: in the figure build() returns for
\* a non-empty snapshot the 4 traces' flags have one true entry, at layer 0, and in
\* the written page, after any sequence of selections, exactly one layer is visible.
C1_ExactlyOneVisible ==
  /\ (Built /\ Len(df) > 0) =>
       /\ Len(fig.data) = NLayers
       /\ VisibleSet([i \in 1..Len(fig.data) |-> fig.data[i].visible]) = {1}
  /\ (Published /\ Len(df) > 0) =>
       /\ Len(page.visible) = NLayers
       /\ Cardinality(VisibleSet(page.visible)) = 1
       /\ (page.title = BaseTitle => VisibleSet(page.visible) = {1})

\* C1 witness: a page of a non-empty snapshot on which a selection has moved the
\* visible layer away from layer 0.
C1_Witness == Published /\ Len(df) > 0 /\ page.visible[3] /\ fig.data[1].visible

\* C2: from every state of the written page, selecting option i leaves layer i
\* visible and every other layer hidden, and shows the base title (both timestamp
\* strings verbatim) followed by the suffix naming threshold i of [0, 1, 5, 10];
\* every page a selection has produced is of that form.
C2_SelectShowsLayerAndTitle ==
  Published =>
    /\ \A i \in 1..NLayers :
         /\ ApplyButton(html_file, page, i).visible = Unit(i)
         /\ ApplyButton(html_file, page, i).title = SuffixedTitle(i)
    /\ page.title # BaseTitle =>
         /\ page.active + 1 \in 1..NLayers
         /\ page.visible = Unit(page.active + 1)
         /\ page.title = SuffixedTitle(page.active + 1)

\* C2 witness: option 3 (threshold 10) selected on a page whose title carries a
\* non-empty observation time.
C2_Witness ==
  Published /\ page.active = 3 /\ page.title = SuffixedTitle(4) /\ obs_time = TsObsZ

\* C3: selecting option i twice in a row gives the same visibility vector and the
\* same title as selecting it once, from every reachable page.
C3_SelectIdempotent ==
  Published =>
    \A i \in 1..NLayers :
      LET once == ApplyButton(html_file, page, i)
          twice == ApplyButton(html_file, once, i)
      IN twice.visible = once.visible /\ twice.title = once.title

\* C3 witness: a page on which option 1 was selected, so that selecting it again
\* is the second selection in a row.
C3_Witness ==
  Published /\ page.title = SuffixedTitle(2) /\ page = ApplyButton(html_file, page, 2)

\* C4: for a non-empty snapshot build() gives exactly 4 layers, in the order of the
\* thresholds [0, 1, 5, 10], with sample counts that do not increase with the index.
C4_FourLayersMonotone ==
  (Built /\ Len(df) > 0) =>
    /\ Len(fig.data) = NLayers
    /\ \A i \in 1..NLayers : fig.data[i].name = <<"aurora >= ">> \o TText[i]
    /\ \A i \in 1..(NLayers - 1) :
         Len(fig.data[i].color) >= Len(fig.data[i + 1].color)

\* C4 witness: a figure whose counts strictly fall along the layers.
C4_Witness ==
  /\ Built
  /\ AuroraOf(df) = <<12, 5, 2>>
  /\ [i \in 1..NLayers |-> Len(fig.data[i].color)] = <<3, 3, 2, 1>>

\* C5: for a non-empty snapshot the layer of threshold t holds exactly the rows with
\* intensity >= t: each as often as it occurs in the snapshot and in the snapshot's
\* order, none below t, an empty layer when t is above the maximum, and intensities
\* [0, 2, 12] give the counts [3, 2, 1, 1].
C5_LayerIsFilter ==
  (Built /\ Len(df) > 0) =>
    /\ Len(fig.data) = NLayers
    /\ \A i \in 1..NLayers :
         /\ Len(fig.data[i].lon) = Len(fig.data[i].color)
         /\ Len(fig.data[i].lat) = Len(fig.data[i].color)
         /\ \A k \in 1..Len(df) :
              Occurrences(LayerRows(i), df[k]) =
                IF df[k].aurora >= T[i] THEN Occurrences(df, df[k]) ELSE 0
         /\ \A k \in 1..Len(fig.data[i].color) : fig.data[i].color[k] >= T[i]
         /\ Len(fig.data[i].color) =
              Cardinality({k \in 1..Len(df) : df[k].aurora >= T[i]})
         /\ (\A k \in 1..Len(df) : df[k].aurora < T[i]) => fig.data[i].color = <<>>
    /\ AuroraOf(df) = <<0, 2, 12>> =>
         [i \in 1..NLayers |-> Len(fig.data[i].color)] = <<3, 2, 1, 1>>

\* C5 witness: the figure built from intensities [0, 2, 12].
C5_Witness == Built /\ AuroraOf(df) = <<0, 2, 12>> /\ fig.data[4].color = <<12>>

\* C6: build() on a snapshot without samples fails with EmptyDataError: no figure
\* is produced, the run ends as a fatal error and no file is written.
C6_EmptySnapshotFails ==
  (Len(df) = 0 /\ Occurrences(calls, "build") > 0) =>
    /\ error = "EmptyDataError"
    /\ pc = "failed"
    /\ ~Built
    /\ ~Published

\* C7: a failed image write is not fatal: the page has been written and the run
\* still ends as a success.
C7_RenderErrorNotFatal ==
  (Occurrences(calls, "write_image") > 0 /\ jpg_file = <<>>) =>
    /\ Published
    /\ pc = "done"
    /\ ExitCode = 0

\* C8: the calls of a run are a prefix of fetch, build, write page, write image
\* (after the directories are made), so each happens at most once and in that order;
\* a finished run made all of them; and once the fetch has raised, the run has
\* failed with no figure built and no file written, and main takes no further step.
C8_FixedOrderAbortOnFetch ==
  LET want == <<"makedirs", "fetch", "build", "write_html", "write_image">>
  IN /\ Len(calls) <= Len(want)
     /\ calls = SubSeq(want, 1, Len(calls))
     /\ pc = "done" => calls = want
     /\ error \in FetchErrors =>
          /\ pc = "failed"
          /\ calls = <<"makedirs", "fetch">>
          /\ ~Built /\ ~Published /\ jpg_file = <<>> /\ stdout = <<>>
     /\ pc = "failed" => ~ENABLED MainStep

\* C8 witness: a run whose feed lacked "coordinates".
C8_Witness == error = "KeyError" /\ pc = "failed"

\* What each tried string must become in the file name.
ExpectedPart(ts) ==
  CASE ts = TsObsZ -> <<"2","0","2","5","1","1","1","2","_","2","1","4","7","0","0">>
    [] ts = TsFcPlain -> <<"2","0","2","5","1","1","1","2","_","2","2","3","6","0","0">>
    [] ts = TsOffset -> <<"2","0","2","5","1","1","1","2","_","2","1","4","7","0","0">>
    [] ts = TsDateOnly -> <<"2","0","2","4","0","2","2","9","_","0","0","0","0","0","0">>
    [] OTHER -> <<"unknown">>

\* C9: the file name stem never fails: for every pair of timestamp strings it is
\* obs_{obsPart}__fc_{fcPart}, each part the compact YYYYMMDD_HHMMSS form of its own
\* string when that parses and "unknown" when it is empty or does not parse.
C9_StemNeverFails ==
  /\ pc # "failed"
  /\ pc = "stem_done" =>
       /\ ts_str = <<"obs_">> \o ExpectedPart(obs_time) \o <<"__fc_">>
                   \o ExpectedPart(fc_time)
       /\ (obs_time = TsObsZ /\ fc_time = TsEmpty) =>
            ts_str = <<"obs_">>
                     \o <<"2","0","2","5","1","1","1","2","_","2","1","4","7","0","0">>
                     \o <<"__fc_", "unknown">>

\* C9 witness: an unparsable observation time next to a parsable forecast time.
C9_Witness ==
  /\ pc = "stem_done"
  /\ obs_time = TsBadDay
  /\ fc_time = TsFcPlain
  /\ ts_str[2] = "unknown"
  /\ Len(ts_str) = 18

\* C10: in every figure build() returns the menu has as many options as there are
\* layers and in the same order: option i's vector has one entry per layer, true at
\* i only, and option i's label names the threshold that layer i's name does.
C10_OptionsMatchLayers ==
  Built =>
    /\ Len(fig.buttons) = Len(fig.data)
    /\ Len(fig.data) = NLayers
    /\ \A i \in 1..Len(fig.data) :
         /\ Len(fig.buttons[i].visible) = Len(fig.data)
         /\ VisibleSet(fig.buttons[i].visible) = {i}
         /\ fig.buttons[i].label = <<"Aurora >= ">> \o TText[i]
         /\ fig.data[i].name = <<"aurora >= ">> \o TText[i]

\* C10 witness: a figure built from a snapshot with rows and written out.
C10_Witness ==
  Published /\ Len(df) = MaxSamples /\ Len(fig.buttons) = 4 /\ pc = "done"

====
